---------------------------- MODULE Spec2Model ----------------------------
(***************************************************************************)
(* SmartRoute.ai trip-planner page: RouteForm -> handleOptimizeRoute ->    *)
(* RouteSummary / MapDisplay.                                              *)
(*                                                                         *)
(* The repository keeps three revisions of RouteOptimizerPage in one file  *)
(* (lines 8-70, 77-157, 164-242); `version` selects the revision a         *)
(* behaviour runs.  JavaScript values are tagged records, objects are      *)
(* sequences of <<key, value>> pairs in insertion order, and strings are   *)
(* TLA+ strings, so that formatting (toFixed, template literals,           *)
(* JSON.stringify, String(x)) is computed and not assumed.                 *)
(***************************************************************************)
EXTENDS Integers, Sequences, FiniteSets, Bags, TLC

VARIABLES
    version,      \* revision of RouteOptimizerPage that is mounted
    routeResult,  \* useState(null)  RouteOptimizerPage.jsx:165
    loading,      \* useState(false) RouteOptimizerPage.jsx:166
    error,        \* useState(null)  RouteOptimizerPage.jsx:167
    calls,        \* invocations of handleOptimizeRoute that have not settled
    submitCount,  \* number of submissions started so far
    last,         \* the submission that settled last, and how
    hadResult,    \* some earlier submission of this page displayed a result
    blocked,      \* the last user attempt hit the disabled submit button
    crashed,      \* a display component threw while rendering
    googleLoaded, \* window.google.maps is defined (the script has loaded)
    mapDisplay,   \* the mounted MapDisplay: its state, refs and map
    mapHistory,   \* MapDisplay mounts and maps constructed on this page
    rejected,     \* the form the browser refused to submit last, if any
    appVersion,   \* revision of App: 1 is src/unnamed/part_000, 2 is App.jsx
    pathname      \* location.pathname

nav == <<appVersion, pathname>>

vars == <<version, routeResult, loading, error, calls, submitCount, last,
          hadResult, blocked, crashed, googleLoaded, mapDisplay, mapHistory,
          rejected, appVersion, pathname>>

----------------------------------------------------------------------------
(* Bounds of the model *)

MaxSubmits == 2

----------------------------------------------------------------------------
(* JavaScript values *)

Undef == [t |-> "undefined"]
Null == [t |-> "null"]
NaN == [t |-> "nan"]
Num(n) == [t |-> "num", v |-> n]
Str(s) == [t |-> "str", v |-> s]
Bool(b) == [t |-> "bool", v |-> b]
Arr(s) == [t |-> "arr", v |-> s]
Obj(s) == [t |-> "obj", v |-> s]

IsNullish(x) == x.t \in {"undefined", "null"}

\* ToBoolean: undefined, null, NaN, 0, "" and false are falsy.
Truthy(x) ==
    CASE x.t \in {"undefined", "null", "nan"} -> FALSE
      [] x.t = "num" -> x.v # 0
      [] x.t = "str" -> x.v # ""
      [] x.t = "bool" -> x.v
      [] OTHER -> TRUE

\* a || b
OrElse(a, b) == IF Truthy(a) THEN a ELSE b

HasKey(o, k) == o.t = "obj" /\ \E i \in 1..Len(o.v) : o.v[i][1] = k

\* o.k for an object o (undefined when the key is missing or o is a
\* primitive); the caller checks IsNullish(o) first, where o.k throws.
Get(o, k) ==
    IF HasKey(o, k)
    THEN o.v[CHOOSE i \in 1..Len(o.v) : o.v[i][1] = k][2]
    ELSE Undef

RECURSIVE JoinStr(_, _)
\* parts.join(sep) for a sequence of strings
JoinStr(parts, sep) ==
    IF Len(parts) = 0 THEN ""
    ELSE IF Len(parts) = 1 THEN parts[1]
    ELSE parts[1] \o sep \o JoinStr(Tail(parts), sep)

RECURSIVE ToStr(_)
\* String(x): what a template literal, Array.prototype.join and
\* new Error(x).message make of x.
ToStr(x) ==
    CASE x.t = "undefined" -> "undefined"
      [] x.t = "null" -> "null"
      [] x.t = "nan" -> "NaN"
      [] x.t = "num" -> ToString(x.v)
      [] x.t = "str" -> x.v
      [] x.t = "bool" -> IF x.v THEN "true" ELSE "false"
      [] x.t = "arr" ->
           JoinStr([i \in 1..Len(x.v) |->
                      IF IsNullish(x.v[i]) THEN "" ELSE ToStr(x.v[i])], ",")
      [] OTHER -> "[object Object]"

RECURSIVE JsonStringify(_)
\* JSON.stringify(x) for a value parsed from JSON
JsonStringify(x) ==
    CASE x.t = "null" -> "null"
      [] x.t = "num" -> ToString(x.v)
      [] x.t = "str" -> "\"" \o x.v \o "\""
      [] x.t = "bool" -> IF x.v THEN "true" ELSE "false"
      [] x.t = "arr" ->
           "[" \o JoinStr([i \in 1..Len(x.v) |-> JsonStringify(x.v[i])], ",")
               \o "]"
      [] x.t = "obj" ->
           "{" \o JoinStr([i \in 1..Len(x.v) |->
                             "\"" \o x.v[i][1] \o "\":"
                                  \o JsonStringify(x.v[i][2])], ",")
               \o "}"
      [] OTHER -> "null"

\* s contains sub as a substring
Contains(s, sub) ==
    \E i \in 1..(Len(s) - Len(sub) + 1) : SubSeq(s, i, i + Len(sub) - 1) = sub


----------------------------------------------------------------------------
(* Numbers.  Wire numbers are the non-negative integers of WireNumbers.    *)

WireNumbers == {0, 2, 75, 350}

\* Number("..."): the strings of the model that parse are those that print
\* a wire number; "" is 0 and anything else is NaN.
StrToNumber(s) ==
    IF s = "" THEN Num(0)
    ELSE IF \E n \in WireNumbers : ToString(n) = s
         THEN Num(CHOOSE n \in WireNumbers : ToString(n) = s)
         ELSE NaN

\* ToNumber(x), as applied by the operators / and %
ToNumber(x) ==
    CASE x.t = "num" -> x
      [] x.t = "nan" -> NaN
      [] x.t = "undefined" -> NaN
      [] x.t = "null" -> Num(0)
      [] x.t = "bool" -> IF x.v THEN Num(1) ELSE Num(0)
      [] x.t = "str" -> StrToNumber(x.v)
      [] OTHER -> StrToNumber(ToStr(x))

\* a % b of JavaScript: the sign of the dividend
JsRem(a, b) == IF a >= 0 THEN a % b ELSE 0 - ((0 - a) % b)

\* n.toFixed(digits) for an integer n
ToFixed(n, digits) ==
    ToString(n) \o "." \o JoinStr([i \in 1..digits |-> "0"], "")

\* x.toFixed is a function only when x is a number
HasToFixed(x) == x.t \in {"num", "nan"}

\* {x} as a React child: numbers and strings print, null, undefined and
\* booleans print nothing.
RECURSIVE RenderChild(_)
RenderChild(x) ==
    CASE x.t = "num" -> ToString(x.v)
      [] x.t = "nan" -> "NaN"
      [] x.t = "str" -> x.v
      [] x.t = "arr" -> JoinStr([i \in 1..Len(x.v) |-> RenderChild(x.v[i])], "")
      [] OTHER -> ""

\* "Objects are not valid as a React child"
RECURSIVE ChildThrows(_)
ChildThrows(x) ==
    \/ x.t = "obj"
    \/ x.t = "arr" /\ \E i \in 1..Len(x.v) : ChildThrows(x.v[i])

----------------------------------------------------------------------------
(* RouteSummary: src/Frontend/src/components/RouteSummary.jsx:3-51 *)

NA == "N/A"

formatMinutes(totalMinutes) ==
    IF IsNullish(totalMinutes) THEN NA
    ELSE LET n == ToNumber(totalMinutes) IN
         IF n.t = "nan" THEN "NaNm"
         ELSE IF n.v \div 60 > 0
              THEN ToString(n.v \div 60) \o "h "
                       \o ToString(JsRem(n.v, 60)) \o "m"
              ELSE ToString(JsRem(n.v, 60)) \o "m"

\* data.totalDistanceKm ? data.totalDistanceKm.toFixed(2) : 'N/A'
DistanceLine(data) ==
    LET d == Get(data, "totalDistanceKm") IN
    IF Truthy(d) THEN ToFixed(d.v, 2) \o " km" ELSE NA \o " km"

TotalTimeLine(data) == formatMinutes(Get(data, "totalDurationMinutes"))

StopsLine_Truthiness(data) ==
    LET s == Get(data, "estimatedChargingStops") IN
    IF Truthy(s) THEN RenderChild(s) ELSE NA

\* data.estimatedChargingStops !== undefined ? data.estimatedChargingStops : 'N/A'
StopsLine(data) ==
    LET s == Get(data, "estimatedChargingStops") IN
    IF s.t # "undefined" THEN RenderChild(s) ELSE NA

EnergyLine(data) ==
    LET e == Get(data, "totalEnergyConsumptionKwh") IN
    IF Truthy(e) THEN ToFixed(e.v, 2) \o " kWh" ELSE NA \o " kWh"

FinalChargeLine(data) ==
    LET f == Get(data, "finalChargePercent") IN
    IF f.t # "undefined" THEN ToStr(f) \o "%" ELSE NA

\* the optional lines: (Driving: ...) and (Charging: ...)
DrivingShown(data) == Get(data, "totalDrivingMinutes").t # "undefined"

ChargingShown(data) ==
    LET c == Get(data, "totalChargingMinutes") IN
    /\ c.t # "undefined"
    /\ ToNumber(c).t = "num"
    /\ ToNumber(c).v > 0

\* rendering RouteSummary throws: toFixed on a truthy non-number, or an
\* object given as a child
SummaryThrows(data) ==
    \/ Truthy(Get(data, "totalDistanceKm"))
         /\ ~HasToFixed(Get(data, "totalDistanceKm"))
    \/ Truthy(Get(data, "totalEnergyConsumptionKwh"))
         /\ ~HasToFixed(Get(data, "totalEnergyConsumptionKwh"))
    \/ ChildThrows(Get(data, "estimatedChargingStops"))

\* what RouteSummary shows for data (when rendering does not throw)
SummaryView(data) ==
    [distance |-> DistanceLine(data),
     total    |-> TotalTimeLine(data),
     driving  |-> IF DrivingShown(data)
                  THEN formatMinutes(Get(data, "totalDrivingMinutes"))
                  ELSE "",
     charging |-> IF ChargingShown(data)
                  THEN formatMinutes(Get(data, "totalChargingMinutes"))
                  ELSE "",
     stops    |-> StopsLine(data),
     energy   |-> EnergyLine(data),
     final    |-> FinalChargeLine(data)]


----------------------------------------------------------------------------
(* The backend's answers.  A call of the gateway ends in one of:           *)
(*   [kind |-> "reject", errType, message]   the promise rejects           *)
(*   [kind |-> "http", status, json, body]   fetch resolves (revisions 2,3)*)
(*   [kind |-> "value", body]        optimizeEvRoute resolves (revision 1) *)

NoResp == [kind |-> "none"]

Field(k, x) == <<k, x>>

Point(lat, lon) == Obj(<<Field("lat", Num(lat)), Field("lon", Num(lon))>>)

\* a FastAPI validation entry {loc: [...], msg: "..."}
ValidationEntry(loc, msg) ==
    Obj(<<Field("loc", Arr([i \in 1..Len(loc) |-> Str(loc[i])])),
          Field("msg", Str(msg))>>)

EntryCharge ==
    ValidationEntry(<<"body", "current_charge_percent">>, "field required")

EntryStart ==
    ValidationEntry(<<"body", "start_location">>, "value is not a valid string")

WithDetail(d) == Obj(<<Field("detail", d)>>)

\* JSON bodies of non-2xx answers
ErrorBodies ==
    { WithDetail(Arr(<<EntryCharge>>)),
      WithDetail(Arr(<<EntryCharge, EntryStart>>)),
      WithDetail(Arr(<<>>)),
      WithDetail(Arr(<<Obj(<<Field("msg", Str("field required"))>>)>>)),
      WithDetail(Str("Route not found")),
      WithDetail(Str("")),
      WithDetail(Obj(<<Field("code", Str("E42"))>>)),
      Obj(<<Field("message", Str("boom"))>>),
      Null }

ErrorStatuses == {400, 422, 500}

\* the logical values a successful answer carries
LogicalValues ==
    { [dist |-> 350, dur |-> 75, stops |-> 2],
      [dist |-> 0, dur |-> 0, stops |-> 0] }

\* shape (a): flat camelCase fields on the root
ShapeFlat(lv) ==
    Obj(<<Field("totalDistanceKm", Num(lv.dist)),
          Field("totalDurationMinutes", Num(lv.dur)),
          Field("estimatedChargingStops", Num(lv.stops))>>)

ChargingLocation(i) ==
    Obj(<<Field("name", Str("Stop " \o ToString(i))),
          Field("connection_types", Arr(<<Str("CCS2"), Str("Type 2")>>)),
          Field("power_kw", Num(75)),
          Field("address", Str("NH48")),
          Field("recommended_charge_minutes", Num(2)),
          Field("is_free", Bool(TRUE))>>)

\* shape (b): snake_case under `summary`, plus `charging_locations`
ShapeSummary(lv) ==
    Obj(<<Field("summary",
                Obj(<<Field("total_distance_km", Num(lv.dist)),
                      Field("total_duration_minutes", Num(lv.dur))>>)),
          Field("charging_locations",
                Arr([i \in 1..lv.stops |-> ChargingLocation(i)])),
          Field("route_geometry", Arr(<<Point(12, 77), Point(13, 80)>>))>>)

\* shape (c): camelCase under `route_summary`
ShapeRouteSummary(lv) ==
    Obj(<<Field("route_summary",
                Obj(<<Field("totalDistanceKm", Num(lv.dist)),
                      Field("totalDurationMinutes", Num(lv.dur)),
                      Field("estimatedChargingStops", Num(lv.stops))>>))>>)

ShapeNames == {"flat", "summary", "route_summary"}

Shape(name, lv) ==
    CASE name = "flat" -> ShapeFlat(lv)
      [] name = "summary" -> ShapeSummary(lv)
      [] OTHER -> ShapeRouteSummary(lv)

KnownShapeBodies == { Shape(n, lv) : n \in ShapeNames, lv \in LogicalValues }

\* the fields RouteSummary reads as numbers
NumericFields ==
    { "totalDistanceKm", "totalDurationMinutes", "totalDrivingMinutes",
      "totalChargingMinutes", "estimatedChargingStops",
      "totalEnergyConsumptionKwh", "finalChargePercent" }

\* what the wire may carry in a numeric field: a number (0 included),
\* null, a non-numeric string, a numeric string
WireFieldValues == { Num(0), Num(75), Null, Str("abc"), Str("75") }

\* a flat answer whose field f carries w and that has no other field
OneField(f, w) == Obj(<<Field(f, w)>>)

OneFieldBodies == { OneField(f, w) : f \in NumericFields, w \in WireFieldValues }

\* the fallback answer of the mock gateway (evApi.js:43-49)
MockFallback ==
    Obj(<<Field("totalDistance", Str("Unknown")),
          Field("estimatedTime", Str("Unknown")),
          Field("chargingStops", Arr(<<>>)),
          Field("mapPolyline", Str("mock_empty_polyline")),
          Field("projectedBatteryLevels", Arr(<<>>))>>)

\* answers that match none of the three known shapes
UnknownShapeBodies ==
    { Obj(<<>>), MockFallback, Obj(<<Field("status", Str("ok"))>>) }

IsKnownShape(b) == b \in KnownShapeBodies

IsUnknownShape(b) ==
    /\ b.t = "obj"
    /\ \A k \in NumericFields \cup
                {"summary", "route_summary", "charging_locations",
                 "route_details", "success"} : ~HasKey(b, k)

\* an answer that carries a route for the map
MapBody(path, coords) ==
    Obj(<<Field("success", Bool(TRUE)),
          Field("route_details",
                Obj(<<Field("route_geometry", Arr(path)),
                      Field("charging_locations_coords", Arr(coords))>>))>>)

PathA == <<Point(12, 77), Point(13, 80)>>

PathB == <<Point(12, 77), Point(15, 78), Point(13, 80)>>

\* two points and one stop, the same two points and no stop, three points
\* and two stops, and a path of one point
MapBodies ==
    { MapBody(PathA, <<Point(14, 78)>>),
      MapBody(PathA, <<>>),
      MapBody(PathB, <<Point(12, 79), Point(16, 75)>>),
      MapBody(<<Point(12, 77)>>, <<>>) }

\* a charging location whose connection_types is ct (Undef: no such key)
StopWithTypes(ct) ==
    Obj(<<Field("name", Str("Stop 1"))>>
        \o (IF ct = Undef THEN <<>> ELSE <<Field("connection_types", ct)>>)
        \o <<Field("power_kw", Num(75))>>)

\* what the wire may carry as connection_types: nothing, null, an empty
\* sequence, one type, two types
ConnectorValues ==
    { Undef, Null, Arr(<<>>), Arr(<<Str("CCS2")>>),
      Arr(<<Str("CCS2"), Str("Type 2")>>) }

\* nested answers with one charging location
ConnectorBodies ==
    { Obj(<<Field("summary", Obj(<<Field("total_distance_km", Num(350))>>)),
            Field("charging_locations", Arr(<<StopWithTypes(ct)>>))>>) :
        ct \in ConnectorValues }

SuccessBodies ==
    KnownShapeBodies \cup OneFieldBodies \cup UnknownShapeBodies
        \cup MapBodies \cup ConnectorBodies

\* TypeError messages of a fetch that got no response: Chromium, Gecko,
\* WebKit.  The Fetch standard fixes the type and not the text.
FetchFailureMessages ==
    { "Failed to fetch",
      "NetworkError when attempting to fetch resource.",
      "Load failed" }

Rejections(v) ==
    IF v = 1
    THEN { [kind |-> "reject", errType |-> "Error", message |-> m] :
             m \in {"Request failed", ""} }
    ELSE { [kind |-> "reject", errType |-> "TypeError", message |-> m] :
             m \in FetchFailureMessages }

HttpResponses ==
    { [kind |-> "http", status |-> 200, json |-> TRUE, body |-> b] :
        b \in SuccessBodies }
    \cup { [kind |-> "http", status |-> st, json |-> TRUE, body |-> b] :
             st \in ErrorStatuses, b \in ErrorBodies }
    \cup { [kind |-> "http", status |-> st, json |-> FALSE, body |-> Null] :
             st \in ErrorStatuses \cup {200} }

Resolutions(v) ==
    IF v = 1
    THEN { [kind |-> "value", body |-> b] : b \in SuccessBodies }
    ELSE HttpResponses


----------------------------------------------------------------------------
(* handleOptimizeRoute, revision 1: RouteOptimizerPage.jsx:13-50 *)

TypeErrorMessage == "Cannot read properties of undefined"

\* `${Math.floor(x / 60)}h ${Math.round(x % 60)}m` for a truthy x, else 'N/A'
DurationV1(x) ==
    IF ~Truthy(x) THEN Str(NA)
    ELSE LET n == ToNumber(x) IN
         IF n.t = "nan" THEN Str("NaNh NaNm")
         ELSE Str(ToString(n.v \div 60) \o "h "
                    \o ToString(JsRem(n.v, 60)) \o "m")

\* one element of backendResult.charging_locations.map(...)
StopV1(stop) ==
    Obj(<<Field("name", Get(stop, "name")),
          Field("type",
                IF Truthy(Get(stop, "connection_types"))
                THEN Str(JoinStr([i \in 1..Len(Get(stop, "connection_types").v)
                                    |-> ToStr(Get(stop, "connection_types").v[i])],
                                 ", "))
                ELSE Str("Unknown")),
          Field("power",
                IF Truthy(Get(stop, "power_kw"))
                THEN Str(ToStr(Get(stop, "power_kw")) \o " kW")
                ELSE Str(NA)),
          Field("location", OrElse(Get(stop, "address"), Str("Unknown Address"))),
          Field("chargeTime",
                IF Truthy(Get(stop, "recommended_charge_minutes"))
                THEN Str(ToStr(Get(stop, "recommended_charge_minutes")) \o " mins")
                ELSE Str(NA)),
          Field("cost",
                OrElse(Get(stop, "usage_cost"),
                       IF Truthy(Get(stop, "is_free"))
                       THEN Str("Free") ELSE Str("Not Specified")))>>)

\* building formattedForSummary throws a TypeError
FormatV1Throws(b) ==
    \/ IsNullish(b)
    \/ IsNullish(Get(b, "summary"))
    \/ Truthy(Get(Get(b, "summary"), "total_distance_km"))
         /\ ~HasToFixed(Get(Get(b, "summary"), "total_distance_km"))
    \/ Get(b, "charging_locations").t # "arr"
    \/ \E i \in 1..Len(Get(b, "charging_locations").v) :
         LET stop == Get(b, "charging_locations").v[i] IN
         \/ IsNullish(stop)
         \/ Truthy(Get(stop, "connection_types"))
              /\ Get(stop, "connection_types").t # "arr"

\* formattedForSummary (lines 22-40)
FormatV1(b) ==
    LET sm == Get(b, "summary") IN
    Obj(<<Field("totalDistance",
                IF Truthy(Get(sm, "total_distance_km"))
                THEN Str(ToFixed(Get(sm, "total_distance_km").v, 1) \o " km")
                ELSE Str(NA)),
          Field("estimatedTime", DurationV1(Get(sm, "total_duration_minutes"))),
          Field("totalDrivingTime", DurationV1(Get(sm, "total_driving_minutes"))),
          Field("totalChargingTime",
                DurationV1(Get(sm, "total_charging_minutes"))),
          Field("chargingStops",
                Arr([i \in 1..Len(Get(b, "charging_locations").v) |->
                       StopV1(Get(b, "charging_locations").v[i])])),
          Field("routeGeometry", Get(b, "route_geometry"))>>)

----------------------------------------------------------------------------
(* handleOptimizeRoute, revisions 2 and 3:                                *)
(* RouteOptimizerPage.jsx:84-137 and 171-215                              *)

UnreachableMessage ==
    "Unable to connect to the backend server. Please ensure the server is running and accessible."

\* response.ok
ResponseOk(status) == status >= 200 /\ status <= 299

HttpErrorMessage(status) == Str("HTTP error! status: " \o ToString(status))

\* err.loc.join('.') throws unless err.loc is an array
EntryThrows(e) == IsNullish(e) \/ Get(e, "loc").t # "arr"

ValidationLine_NoLoc(e) == ToStr(Get(e, "msg"))

\* `${err.loc.join('.')} - ${err.msg}`
ValidationLine(e) ==
    JoinStr([i \in 1..Len(Get(e, "loc").v) |->
               IF IsNullish(Get(e, "loc").v[i]) THEN ""
               ELSE ToStr(Get(e, "loc").v[i])], ".")
      \o " - " \o ToStr(Get(e, "msg"))

\* errorDetail of a response that is not ok (lines 188-198)
ErrorDetail(resp) ==
    IF ~resp.json \/ IsNullish(resp.body)
    THEN HttpErrorMessage(resp.status)
    ELSE LET detail == Get(resp.body, "detail") IN
         IF resp.status = 422 /\ detail.t = "arr"
         THEN IF \E i \in 1..Len(detail.v) : EntryThrows(detail.v[i])
              THEN HttpErrorMessage(resp.status)
              ELSE Str(JoinStr([i \in 1..Len(detail.v) |->
                                  ValidationLine(detail.v[i])], "; "))
         ELSE OrElse(OrElse(detail, Str(JsonStringify(resp.body))),
                     Str("Failed to optimize route. Please try again."))

JsonSyntaxMessage == "Unexpected token < in JSON at position 0"

\* the catch block: what setError receives for a caught error
ClassifyError(v, errType, message) ==
    IF v = 1
    THEN OrElse(Str(message), Str("Failed to optimize route. Please try again."))
    ELSE IF errType = "TypeError" /\ Contains(message, "fetch")
         THEN Str(UnreachableMessage)
         ELSE OrElse(Str(message),
                     Str("Failed to optimize route. Please check your inputs."))

\* the result the page stores for a successful answer, Null when building
\* it throws
StoredResult(v, body) ==
    IF v = 1
    THEN IF FormatV1Throws(body) THEN Null ELSE FormatV1(body)
    ELSE body

----------------------------------------------------------------------------
(* What the page renders *)

\* <button type="submit" disabled={loading}>
SubmitDisabled_Never == FALSE

SubmitDisabled == loading

\* {routeResult && <RouteSummary data={routeResult} />}
SummaryShown == Truthy(routeResult)

\* MapDisplay has a route to draw (the negation of the test at
\* RouteSummary.jsx:115)
MapDrawable(routeData) ==
    /\ Truthy(routeData)
    /\ Truthy(Get(routeData, "success"))
    /\ Truthy(Get(routeData, "route_details"))
    /\ LET g == Get(Get(routeData, "route_details"), "route_geometry") IN
       /\ Truthy(g)
       /\ g.t \in {"arr", "str"} => Len(g.v) >= 2

\* rendering the page with this result throws in a display component
RenderThrows(result) == Truthy(result) /\ SummaryThrows(result)


----------------------------------------------------------------------------
(* MapDisplay on Google Maps:                                              *)
(* src/Frontend/src/components/RouteSummary.jsx:57-272.                    *)
(* Positions are in 1/10000 of a degree.  `onMap` is the bag of overlays   *)
(* the map shows: setMap(map) and a constructor given `map` add one,       *)
(* setMap(null) removes one, and dropping a reference removes nothing.     *)
(* `log` lists, in program order, the changes the latest run of the main   *)
(* effect (with the cleanup that preceded it) made to what the map shows.  *)
(* Coordinates are taken to be well-formed ({lat, lon} numbers).  The      *)
(* placeholder of src/Frontend/src/components/MapDisplay.jsx, which has no *)
(* map, is not part of the model.                                          *)

DefaultCenter == [lat |-> 205937, lng |-> 789629]

DefaultZoom == 5

\* the view after new Map({center, zoom}) or setCenter + setZoom
DefaultView == [mode |-> "center", center |-> DefaultCenter, zoom |-> DefaultZoom]

\* the view after fitBounds(bounds)
FittedView(bounds) == [mode |-> "bounds", bounds |-> bounds]

NoView == [mode |-> "none"]

\* { lat: coord.lat, lng: coord.lon }
LatLng(coord) ==
    [lat |-> Get(coord, "lat").v * 10000, lng |-> Get(coord, "lon").v * 10000]

\* route_geometry.map(coord => ({ lat: coord.lat, lng: coord.lon }))
PathOf(routeData) ==
    LET g == Get(Get(routeData, "route_details"), "route_geometry") IN
    [i \in 1..Len(g.v) |-> LatLng(g.v[i])]

\* the positions of charging_locations_coords, none when it is missing
ChargingCoords(routeData) ==
    LET c == Get(Get(routeData, "route_details"), "charging_locations_coords") IN
    IF c.t = "arr" THEN [i \in 1..Len(c.v) |-> LatLng(c.v[i])] ELSE <<>>

Polyline(path) == [kind |-> "polyline", path |-> path]

Marker(position, title, label) ==
    [kind |-> "marker", position |-> position, title |-> title, label |-> label]

\* the characters U+26A1 U+FE0F of the label text, spelled in ASCII
Bolt == "(bolt)"

ChargingLabel_ZeroBased(i) == Bolt \o ToString(i - 1)

\* text: `(bolt)${index + 1}` for the i-th coordinate (i = index + 1)
ChargingLabel(i) == Bolt \o ToString(i)

ChargingMarker(position, i) ==
    Marker(position, "Charging Stop " \o ToString(i), ChargingLabel(i))

\* a reference that holds no overlay, and one that holds an overlay
NoObj == [exists |-> FALSE]

Overlay(desc, attached) ==
    [exists |-> TRUE, attached |-> attached, desc |-> desc]

BagOf(e) == SetToBag({e})

RECURSIVE SeqToBag(_)
SeqToBag(s) ==
    IF s = <<>> THEN EmptyBag ELSE BagOf(Head(s)) (+) SeqToBag(Tail(s))

\* the state of a MapDisplay before its first render
NewMapDisplay ==
    [isGoogleMapsApiReady |-> FALSE,
     hasMapBeenCreated    |-> FALSE,
     initialMapMessage    |-> "Loading map...",
     polling              |-> FALSE,
     mapInstance          |-> FALSE,
     view                 |-> NoView,
     createdView          |-> NoView,
     created              |-> 0,
     polyline             |-> NoObj,
     startMarker          |-> NoObj,
     endMarker            |-> NoObj,
     chargingMarkers      |-> <<>>,
     onMap                |-> EmptyBag,
     cleanup              |-> FALSE,
     log                  |-> <<>>]

\* if (ref.current) ref.current.setMap(null)
Detach(m, ref) ==
    IF m[ref].exists /\ m[ref].attached
    THEN [m EXCEPT ![ref].attached = FALSE,
                   !.onMap = @ (-) BagOf(m[ref].desc),
                   !.log = Append(@, "detach")]
    ELSE m

\* if (ref.current) { ref.current.setMap(null); ref.current = null; }
Release(m, ref) == [Detach(m, ref) EXCEPT ![ref] = NoObj]

Attach_Missing(m, ref) == m

\* ref.current.setMap(map)
Attach(m, ref) ==
    IF m[ref].exists /\ ~m[ref].attached
    THEN [m EXCEPT ![ref].attached = TRUE,
                   !.onMap = @ (+) BagOf(m[ref].desc),
                   !.log = Append(@, "attach")]
    ELSE m

\* setPath / setPosition on the overlay a reference holds
Modify(m, ref, desc) ==
    [m EXCEPT ![ref].desc = desc,
              !.onMap = IF m[ref].attached
                        THEN (@ (-) BagOf(m[ref].desc)) (+) BagOf(desc)
                        ELSE @,
              !.log = IF m[ref].attached
                      THEN @ \o <<"detach", "attach">>
                      ELSE @]

\* ref.current = new Overlay({..., map: map})
Create(m, ref, desc) ==
    [m EXCEPT ![ref] = Overlay(desc, TRUE),
              !.onMap = @ (+) BagOf(desc),
              !.log = Append(@, "attach")]

\* chargingMarkersRef.current.forEach(marker => marker.setMap(null));
\* chargingMarkersRef.current = []
ClearChargingMarkers(m) ==
    [m EXCEPT !.onMap = @ (-) SeqToBag(m.chargingMarkers),
              !.chargingMarkers = <<>>,
              !.log = @ \o [i \in 1..Len(m.chargingMarkers) |-> "detach"]]

\* charging_locations_coords.forEach((charge_coord, index) => ... push)
AddChargingMarkers(m, coords) ==
    LET markers == [i \in 1..Len(coords) |-> ChargingMarker(coords[i], i)] IN
    [m EXCEPT !.onMap = @ (+) SeqToBag(markers),
              !.chargingMarkers = @ \o markers,
              !.log = @ \o [i \in 1..Len(markers) |-> "attach"]]

Min(a, b) == IF a <= b THEN a ELSE b

Max(a, b) == IF a >= b THEN a ELSE b

EmptyBounds == [empty |-> TRUE]

\* bounds.extend(p)
Extend(b, p) ==
    IF b.empty
    THEN [empty |-> FALSE, south |-> p.lat, north |-> p.lat,
          west |-> p.lng, east |-> p.lng]
    ELSE [empty |-> FALSE,
          south |-> Min(b.south, p.lat), north |-> Max(b.north, p.lat),
          west |-> Min(b.west, p.lng), east |-> Max(b.east, p.lng)]

RECURSIVE ExtendAll(_, _)
ExtendAll(b, points) ==
    IF points = <<>> THEN b
    ELSE ExtendAll(Extend(b, Head(points)), Tail(points))

FitPoints_PathOnly(path, coords) == path

\* the points the bounds are extended by: the path, then the charging
\* coordinates
FitPoints(path, coords) == path \o coords

MapNeedsInit_Always(m) == TRUE

\* if (!map)
MapNeedsInit(m) == ~m.mapInstance

\* new window.google.maps.Map(container, {center, zoom, ...});
\* setHasMapBeenCreated(true)
InitMap(m) ==
    IF MapNeedsInit(m)
    THEN [m EXCEPT !.mapInstance = TRUE,
                   !.view = DefaultView,
                   !.createdView = DefaultView,
                   !.created = @ + 1,
                   !.onMap = EmptyBag,
                   !.hasMapBeenCreated = TRUE]
    ELSE m

NoRouteView_Keep(m) == m.view

\* map.setCenter({ lat: 20.5937, lng: 78.9629 }); map.setZoom(5)
NoRouteView(m) == DefaultView

\* the branch for a result without a route (lines 115-133); it returns no
\* cleanup function
ClearRoute_Skip(m) == [m EXCEPT !.cleanup = FALSE]

ClearRoute(m) ==
    LET a == ClearChargingMarkers(
                 Release(Release(Release(m, "polyline"), "startMarker"),
                         "endMarker"))
    IN [a EXCEPT !.view = NoRouteView(a), !.cleanup = FALSE]

\* update or create the overlay of a reference (lines 144-192): setPath /
\* setPosition and setMap(map) on the overlay it holds, else a new overlay
Place(m, ref, desc, field) ==
    IF m[ref].exists
    THEN Attach(Modify(m, ref, [m[ref].desc EXCEPT ![field] = desc[field]]), ref)
    ELSE Create(m, ref, desc)

\* the branch that draws a route (lines 136-250); it returns the cleanup
\* function
DrawRoute(m, routeData) ==
    LET path == PathOf(routeData)
        coords == ChargingCoords(routeData)
        a == Place(m, "polyline", Polyline(path), "path")
        b == Place(a, "startMarker", Marker(path[1], "Start Location", "A"),
                   "position")
        c == Place(b, "endMarker",
                   Marker(path[Len(path)], "End Location", "B"), "position")
        d == AddChargingMarkers(ClearChargingMarkers(c), coords)
    IN [d EXCEPT !.view = FittedView(ExtendAll(EmptyBounds,
                                               FitPoints(path, coords))),
                 !.cleanup = TRUE]

\* the function the drawing branch returns (lines 241-250): the overlays
\* are detached and the references to polyline and markers are kept
MapCleanup_None(m) == [m EXCEPT !.cleanup = FALSE]

MapCleanup(m) ==
    IF m.cleanup
    THEN [ClearChargingMarkers(
              Detach(Detach(Detach(m, "polyline"), "startMarker"), "endMarker"))
          EXCEPT !.cleanup = FALSE]
    ELSE m

\* one run of the main effect (lines 93-252), after the cleanup of the
\* previous run
MapEffect(m, routeData) ==
    LET c == MapCleanup([m EXCEPT !.log = <<>>]) IN
    IF ~c.isGoogleMapsApiReady THEN c
    ELSE IF MapDrawable(routeData)
         THEN DrawRoute(InitMap(c), routeData)
         ELSE ClearRoute(InitMap(c))

\* the main effect runs because a dependency changed; when the run changed
\* hasMapBeenCreated, itself a dependency, the effect runs once more
MapCommit(m, routeData) ==
    LET a == MapEffect(m, routeData) IN
    IF a.hasMapBeenCreated # m.hasMapBeenCreated
    THEN MapEffect(a, routeData) ELSE a

\* mount: the readiness effect (lines 73-90) finds the library or starts
\* polling; the main effect of the first render sees
\* isGoogleMapsApiReady = false and returns
MountMapDisplay(loaded, routeData) ==
    IF loaded
    THEN MapCommit([NewMapDisplay EXCEPT !.isGoogleMapsApiReady = TRUE],
                   routeData)
    ELSE [NewMapDisplay EXCEPT !.polling = TRUE]

\* unmount: both effects' cleanup functions run
UnmountMapDisplay(m) == [MapCleanup(m) EXCEPT !.polling = FALSE]

\* clearInterval(checkApiInterval) once the library has been seen (line 83)
PollingAfterReady_Continues == TRUE

PollingAfterReady == FALSE

\* one tick of setInterval(..., 100)
PollApi(m, loaded, routeData) ==
    IF loaded
    THEN MapCommit([m EXCEPT !.isGoogleMapsApiReady = TRUE,
                             !.polling = PollingAfterReady], routeData)
    ELSE [m EXCEPT !.initialMapMessage = "Loading map API..."]

\* the key of <MapDisplay> on the page: revision 3 sets one (lines 232-235),
\* revisions 1 and 2 set none
MapKey(v, result) ==
    IF v # 3 THEN "none"
    ELSE IF Truthy(result)
         THEN "map-with-route-"
                \o ToStr(Get(Get(result, "route_summary"), "total_distance_km"))
         ELSE "map-no-route"

\* the MapDisplay of the page after a render that changes routeResult from
\* `old` to `new`: a changed key unmounts it and mounts another; otherwise
\* its main effect runs when the routeData prop changed
MapAfterRender(m, v, loaded, old, new, changed) ==
    IF MapKey(v, old) # MapKey(v, new)
    THEN MountMapDisplay(loaded, new)
    ELSE IF changed THEN MapCommit(m, new) ELSE m


----------------------------------------------------------------------------
(* RouteForm: src/unnamed/part_004, two revisions (lines 4-100 and         *)
(* 106-189).  The values of the controlled inputs at the moment of a       *)
(* submit gesture are `f`; the browser validates them against the          *)
(* attributes of the inputs before it fires the submit event.              *)

\* revision 1 of the page calls the gateway with the camelCase request of
\* the first RouteForm; revisions 2 and 3 post the snake_case request of
\* the second
FormVersion(v) == IF v = 1 THEN 1 ELSE 2

\* what a user may have in a number input: nothing, or an integer
FormNumbers == {0 - 5, 0, 80, 100, 150, 453}

\* parseFloat of the value of a number input ("" when it holds no number)
ParseFloat(s) ==
    IF \E n \in FormNumbers : ToString(n) = s
    THEN Num(CHOOSE n \in FormNumbers : ToString(n) = s)
    ELSE NaN

\* <input type="text" required>: valueMissing
TextInvalid(s) == s = ""

\* <input type="number" required>: valueMissing
RangeInvalid(s) == ParseFloat(s).t # "num"

\* <input type="number" min="0" max="100" required>: valueMissing,
\* rangeUnderflow, rangeOverflow
ChargeInvalid(s) ==
    \/ ParseFloat(s).t # "num"
    \/ ParseFloat(s).v < 0
    \/ ParseFloat(s).v > 100

\* the form passes constraint validation; the second RouteForm has no
\* range input
FormValid(fv, f) ==
    /\ ~TextInvalid(f.vehicle)
    /\ fv = 1 => ~RangeInvalid(f.range)
    /\ ~ChargeInvalid(f.currentCharge)
    /\ ~TextInvalid(f.startLocation)
    /\ ~TextInvalid(f.destination)

\* preferredCharger === 'fast' ? 'fast' : 'standard' (line 120)
ChargingPreference_PassThrough(sel) == Str(sel)

ChargingPreference(sel) == IF sel = "fast" THEN Str("fast") ELSE Str("standard")

\* the object handleSubmit passes to onSubmit (lines 14-21 and 115-121)
TripRequest(fv, f) ==
    IF fv = 1
    THEN Obj(<<Field("makeModel", Str(f.vehicle)),
               Field("range", ParseFloat(f.range)),
               Field("currentCharge", ParseFloat(f.currentCharge)),
               Field("startLocation", Str(f.startLocation)),
               Field("destination", Str(f.destination)),
               Field("preferredCharger", Str(f.preferredCharger))>>)
    ELSE Obj(<<Field("ev_type", Str(f.vehicle)),
               Field("current_charge_percent", ParseFloat(f.currentCharge)),
               Field("start_location", Str(f.startLocation)),
               Field("end_location", Str(f.destination)),
               Field("charging_preference",
                     ChargingPreference(f.preferredCharger))>>)

\* the options of the charger <select>, and the initial state 'any'
ChargerChoices(fv) ==
    IF fv = 1 THEN {"any", "level2", "dc_fast"} ELSE {"any", "standard", "fast"}

\* a completely and validly filled form
FilledForm ==
    [vehicle |-> "Tata Nexon EV Max", range |-> "453", currentCharge |-> "80",
     startLocation |-> "Bengaluru", destination |-> "Chennai",
     preferredCharger |-> "any"]

\* the forms a user submits: the filled form with each charger choice,
\* with each charge, and with each field left empty in turn
FormInputs(fv) ==
    { [FilledForm EXCEPT !.preferredCharger = ch] : ch \in ChargerChoices(fv) }
    \cup { [FilledForm EXCEPT !.currentCharge = ch] :
              ch \in {"", "-5", "0", "100", "150"} }
    \cup { [FilledForm EXCEPT ![k] = ""] :
              k \in {"vehicle", "startLocation", "destination"} }
    \cup (IF fv = 1 THEN { [FilledForm EXCEPT !.range = ""] } ELSE {})

\* no submit gesture has been refused by validation
NoAttempt == [vehicle |-> "none"]

\* the request of a call whose fetch has been answered: its body went out
\* with the fetch and nothing reads it again
Sent == [t |-> "sent"]


----------------------------------------------------------------------------
(* Routing: App (src/unnamed/part_000:16-19, src/Frontend/src/App.jsx:17-21) *)
(* and Header (src/unnamed/part_003:9-14)                                  *)

AppVersions == {1, 2}

\* <Route path=... element=... /> of each revision of App
AppRoutes(av) ==
    IF av = 1
    THEN { <<"/", "RouteOptimizerPage">>,
           <<"/battery-disposal", "BatteryDisposalPage">> }
    ELSE { <<"/", "HomePage">>,
           <<"/route-optimizer", "RouteOptimizerPage">>,
           <<"/battery-disposal", "BatteryDisposalPage">> }

\* the element <Routes> renders at pathname p, "none" when no route matches
Mounted(av, p) ==
    IF \E r \in AppRoutes(av) : r[1] = p
    THEN (CHOOSE r \in AppRoutes(av) : r[1] = p)[2]
    ELSE "none"

\* <Link to=...>text</Link> of the header
HeaderLinks ==
    { <<"SmartRoute.ai", "/">>,
      <<"Route Optimizer", "/">>,
      <<"Battery Disposal", "/battery-disposal">> }

\* the pathnames a user may load: those of either App, and one of neither
Paths == {"/", "/route-optimizer", "/battery-disposal", "/about"}

\* the pathname at which revision av mounts the trip planner
PlannerPath(av) == CHOOSE p \in Paths : Mounted(av, p) = "RouteOptimizerPage"

PlannerMounted == Mounted(appVersion, pathname) = "RouteOptimizerPage"


----------------------------------------------------------------------------
(* State machine *)

Versions == {1, 2, 3}

\* One visit to the trip planner.  No handler of the page reads how the
\* page was reached, so the visit starts in the App whose root path mounts
\* it; NavSpec below adds navigation and both revisions of App.
Init ==
    /\ version \in Versions
    /\ routeResult = Null
    /\ loading = FALSE
    /\ error = Null
    /\ calls = {}
    /\ submitCount = 0
    /\ last = [id |-> 0, kind |-> "none", cause |-> "", resp |-> NoResp]
    /\ hadResult = FALSE
    /\ blocked = FALSE
    /\ crashed = FALSE
    /\ googleLoaded \in BOOLEAN
    /\ mapDisplay = MountMapDisplay(googleLoaded, Null)
    /\ mapHistory = [mounts |-> 1, maps |-> mapDisplay.created,
                     drawn |-> FALSE, stops |-> 0]
    /\ rejected = NoAttempt
    /\ appVersion = 1
    /\ pathname = PlannerPath(appVersion)

\* the map shows a route
RouteOnMap(m) == m.mapInstance /\ m.onMap # EmptyBag

\* the record of what the page's map has been through, after MapDisplay
\* went from `old` to `new`
MapHistoryAfter(h, old, new, remounted) ==
    [mounts |-> h.mounts + (IF remounted THEN 1 ELSE 0),
     maps   |-> h.maps + (IF remounted THEN new.created
                          ELSE new.created - old.created),
     drawn  |-> h.drawn \/ RouteOnMap(new),
     stops  |-> Max(h.stops, Len(new.chargingMarkers))]

\* the render that follows a change of routeResult, as MapDisplay sees it
MapFollows(changed) ==
    /\ mapDisplay' = MapAfterRender(mapDisplay, version, googleLoaded,
                                    routeResult, routeResult', changed)
    /\ mapHistory' =
         MapHistoryAfter(mapHistory, mapDisplay, mapDisplay',
                         MapKey(version, routeResult)
                             # MapKey(version, routeResult'))

\* setError(null) at the start of a submission
ClearedError_Stale == error

ClearedError == Null

\* setRouteResult(null) at the start of a submission
ClearedResult_Stale == routeResult

ClearedResult == Null

\* finally { setLoading(false) }
FinallyLoading_OnlyOnSuccess(ok) == IF ok THEN FALSE ELSE loading

FinallyLoading(ok) == FALSE

\* The user clicks the submit button (or presses Enter in a field) while
\* the button is enabled and the form is valid: RouteForm.handleSubmit
\* calls onSubmit with the request, and handleOptimizeRoute runs up to its
\* first await.
Submit ==
    /\ PlannerMounted
    /\ ~crashed
    /\ submitCount < MaxSubmits
    /\ ~SubmitDisabled
    /\ \E f \in FormInputs(FormVersion(version)) :
         /\ FormValid(FormVersion(version), f)
         /\ calls' = calls \cup
                       {[id |-> submitCount + 1, pc |-> "fetch",
                         resp |-> NoResp,
                         request |-> TripRequest(FormVersion(version), f),
                         selected |-> f.preferredCharger]}
    /\ rejected' = NoAttempt
    /\ submitCount' = submitCount + 1
    /\ loading' = TRUE
    /\ error' = ClearedError
    /\ routeResult' = ClearedResult
    /\ blocked' = FALSE
    /\ MapFollows(routeResult' # routeResult)
    /\ UNCHANGED nav
    /\ UNCHANGED <<version, last, hadResult, crashed, googleLoaded>>

\* The same gesture while the button is disabled: the browser fires no
\* submit event.
SubmitBlocked ==
    /\ PlannerMounted
    /\ ~crashed
    /\ SubmitDisabled
    /\ blocked' = TRUE
    /\ UNCHANGED nav
    /\ UNCHANGED <<version, routeResult, loading, error, calls, submitCount,
                   last, hadResult, crashed, googleLoaded, mapDisplay,
                   mapHistory, rejected>>

\* The same gesture while the button is enabled and a field fails
\* constraint validation: the browser reports the field and fires no
\* submit event.
SubmitInvalid ==
    /\ PlannerMounted
    /\ ~crashed
    /\ ~SubmitDisabled
    /\ \E f \in FormInputs(FormVersion(version)) :
         /\ ~FormValid(FormVersion(version), f)
         /\ rejected' = f
    /\ UNCHANGED nav
    /\ UNCHANGED <<version, routeResult, loading, error, calls, submitCount,
                   last, hadResult, blocked, crashed, googleLoaded, mapDisplay,
                   mapHistory>>

\* catch + finally
SettleFail(c, msg, cause, resp) ==
    /\ error' = msg
    /\ loading' = FinallyLoading(FALSE)
    /\ calls' = calls \ {c}
    /\ last' = [id |-> c.id, kind |-> "fail", cause |-> cause, resp |-> resp]
    /\ UNCHANGED nav
    /\ UNCHANGED <<version, routeResult, submitCount, hadResult, blocked,
                   crashed, googleLoaded, mapDisplay, mapHistory, rejected>>

\* setRouteResult(...) + finally, and the render that follows
SettleOk(c, resp) ==
    /\ routeResult' = StoredResult(version, resp.body)
    /\ loading' = FinallyLoading(TRUE)
    /\ calls' = calls \ {c}
    /\ last' = [id |-> c.id, kind |-> "ok", cause |-> "", resp |-> resp]
    /\ hadResult' = TRUE
    /\ crashed' = RenderThrows(StoredResult(version, resp.body))
    /\ IF RenderThrows(StoredResult(version, resp.body))
       THEN /\ mapDisplay' = UnmountMapDisplay(mapDisplay)
            /\ mapHistory' = mapHistory
       ELSE MapFollows(TRUE)
    /\ UNCHANGED nav
    /\ UNCHANGED <<version, error, submitCount, blocked, googleLoaded,
                   rejected>>

\* the awaited gateway call rejects: no response was received
GatewayReject(c) ==
    /\ ~crashed
    /\ c.pc = "fetch"
    /\ \E r \in Rejections(version) :
         SettleFail(c, ClassifyError(version, r.errType, r.message),
                    "unreachable", r)

\* revision 1: optimizeEvRoute resolves and formattedForSummary is built
ResolveV1(c) ==
    /\ ~crashed
    /\ version = 1
    /\ c.pc = "fetch"
    /\ \E r \in Resolutions(1) :
         IF FormatV1Throws(r.body)
         THEN SettleFail(c, ClassifyError(1, "TypeError", TypeErrorMessage),
                         "exception", r)
         ELSE SettleOk(c, r)

\* revisions 2, 3: fetch resolves with a response; the handler goes on to
\* await response.json()
FetchResolve(c) ==
    /\ ~crashed
    /\ version \in {2, 3}
    /\ c.pc = "fetch"
    /\ \E r \in Resolutions(version) :
         calls' = (calls \ {c}) \cup
                    {[c EXCEPT !.pc = IF ResponseOk(r.status)
                                      THEN "okjson" ELSE "errjson",
                               !.resp = r,
                               !.request = Sent,
                               !.selected = ""]}
    /\ UNCHANGED nav
    /\ UNCHANGED <<version, routeResult, loading, error, submitCount, last,
                   hadResult, blocked, crashed, googleLoaded, mapDisplay,
                   mapHistory, rejected>>

\* the body of a response that is not ok has been read (or failed to
\* parse): throw new Error(errorDetail), caught below
ErrorBodyRead(c) ==
    /\ ~crashed
    /\ c.pc = "errjson"
    /\ SettleFail(c, ClassifyError(version, "Error", ToStr(ErrorDetail(c.resp))),
                  "http", c.resp)

\* the body of an ok response failed to parse as JSON
OkBodyUnparsable(c) ==
    /\ ~crashed
    /\ c.pc = "okjson"
    /\ ~c.resp.json
    /\ SettleFail(c, ClassifyError(version, "SyntaxError", JsonSyntaxMessage),
                  "parse", c.resp)

\* the body of an ok response has been parsed
OkBodyRead(c) ==
    /\ ~crashed
    /\ c.pc = "okjson"
    /\ c.resp.json
    /\ SettleOk(c, c.resp)

\* the Google Maps script finishes loading
GoogleLoads ==
    /\ ~googleLoaded
    /\ googleLoaded' = TRUE
    /\ UNCHANGED nav
    /\ UNCHANGED <<version, routeResult, loading, error, calls, submitCount,
                   last, hadResult, blocked, crashed, mapDisplay, mapHistory,
                   rejected>>

\* the interval of the readiness effect fires
PollTick ==
    /\ PlannerMounted
    /\ ~crashed
    /\ mapDisplay.polling
    /\ mapDisplay' = PollApi(mapDisplay, googleLoaded, routeResult)
    /\ mapHistory' = MapHistoryAfter(mapHistory, mapDisplay, mapDisplay', FALSE)
    /\ UNCHANGED nav
    /\ UNCHANGED <<version, routeResult, loading, error, calls, submitCount,
                   last, hadResult, blocked, crashed, googleLoaded, rejected>>

Next ==
    \/ Submit
    \/ SubmitBlocked
    \/ SubmitInvalid
    \/ GoogleLoads
    \/ PollTick
    \/ \E c \in calls : GatewayReject(c)
    \/ \E c \in calls : ResolveV1(c)
    \/ \E c \in calls : FetchResolve(c)
    \/ \E c \in calls : ErrorBodyRead(c)
    \/ \E c \in calls : OkBodyUnparsable(c)
    \/ \E c \in calls : OkBodyRead(c)

Spec == Init /\ [][Next]_vars

\* A step of a pending call, as `calls` shows it: the call settles and
\* leaves the set (GatewayReject, ResolveV1, ErrorBodyRead,
\* OkBodyUnparsable, OkBodyRead), or fetch resolves and the call goes on to
\* read the body (FetchResolve).  While a call is pending the submit button
\* is disabled, so no other step of Next changes `calls`.
CallProgress ==
    \E c \in calls :
        /\ ~crashed
        /\ \/ calls' = calls \ {c}
           \/ /\ c.pc = "fetch" /\ version \in {2, 3}
              /\ \E r \in Resolutions(version) :
                   calls' = (calls \ {c}) \cup
                      {[c EXCEPT !.pc = IF ResponseOk(r.status)
                                        THEN "okjson" ELSE "errjson",
                                 !.resp = r,
                                 !.request = Sent,
                                 !.selected = ""]}

\* the interval of the readiness effect is set and its next tick will find
\* the library; the tick that finds it clears the interval
PollEnabled == PlannerMounted /\ ~crashed /\ mapDisplay.polling /\ googleLoaded

PollObserved == mapDisplay.polling /\ ~mapDisplay'.polling

\* The same page where every pending request settles (the browser always
\* settles the promise of the gateway call, of fetch and of
\* response.json()) and where the interval of the readiness effect keeps
\* firing while it is set (setInterval(..., 100)).  The second condition is
\* weak fairness of the tick that finds the library, written out with
\* PollEnabled as its enabling condition.
LiveSpec ==
    /\ Init
    /\ [][Next]_vars
    /\ WF_calls(CallProgress)
    /\ ([]<>(~PollEnabled) \/ []<><<PollObserved>>_vars)

\* The trip planner page is mounted anew (mounted) or is not on screen: its
\* state is that of useState's initial values, and what an abandoned call
\* does when it settles is no longer seen.
PageReset(mounted, loaded) ==
    /\ routeResult' = Null
    /\ loading' = FALSE
    /\ error' = Null
    /\ calls' = {}
    /\ last' = [id |-> 0, kind |-> "none", cause |-> "", resp |-> NoResp]
    /\ hadResult' = FALSE
    /\ blocked' = FALSE
    /\ rejected' = NoAttempt
    /\ mapDisplay' = IF mounted THEN MountMapDisplay(loaded, Null)
                     ELSE NewMapDisplay
    /\ mapHistory' = [mounts |-> IF mounted THEN 1 ELSE 0,
                      maps |-> mapDisplay'.created,
                      drawn |-> FALSE, stops |-> 0]

\* the user follows a link of the header: the router changes the location
\* and <Routes> renders the element of the new pathname
ClickLink(l) ==
    /\ ~crashed
    /\ pathname' = l[2]
    /\ IF Mounted(appVersion, l[2]) = Mounted(appVersion, pathname)
       THEN UNCHANGED <<routeResult, loading, error, calls, last, hadResult,
                        blocked, rejected, mapDisplay, mapHistory>>
       ELSE PageReset(Mounted(appVersion, l[2]) = "RouteOptimizerPage",
                      googleLoaded)
    /\ UNCHANGED <<version, submitCount, crashed, googleLoaded, appVersion>>

\* the user loads the application at a pathname (address bar, reload)
LoadUrl(p) ==
    /\ pathname' = p
    /\ crashed' = FALSE
    /\ googleLoaded' \in BOOLEAN
    /\ PageReset(Mounted(appVersion, p) = "RouteOptimizerPage", googleLoaded')
    /\ UNCHANGED <<version, submitCount, appVersion>>

\* the application of either revision of App, loaded at any pathname
NavInit ==
    /\ version \in Versions
    /\ appVersion \in AppVersions
    /\ pathname \in Paths
    /\ googleLoaded \in BOOLEAN
    /\ routeResult = Null
    /\ loading = FALSE
    /\ error = Null
    /\ calls = {}
    /\ submitCount = 0
    /\ last = [id |-> 0, kind |-> "none", cause |-> "", resp |-> NoResp]
    /\ hadResult = FALSE
    /\ blocked = FALSE
    /\ crashed = FALSE
    /\ rejected = NoAttempt
    /\ mapDisplay = IF PlannerMounted THEN MountMapDisplay(googleLoaded, Null)
                    ELSE NewMapDisplay
    /\ mapHistory = [mounts |-> IF PlannerMounted THEN 1 ELSE 0,
                     maps |-> mapDisplay.created,
                     drawn |-> FALSE, stops |-> 0]

NavNext ==
    \/ Next
    \/ \E l \in HeaderLinks : ClickLink(l)
    \/ \E p \in Paths : LoadUrl(p)

\* the page together with navigation
NavSpec == NavInit /\ [][NavNext]_vars


----------------------------------------------------------------------------
(* Properties *)

\* the last submission has settled and no newer one has started
Settled == calls = {} /\ last.kind # "none"

SettledFail == calls = {} /\ last.kind = "fail"

\* the last submission was answered by the backend (any status)
Answered == Settled /\ last.resp.kind \in {"http", "value"}

\* ... with a 2xx JSON answer (or, in revision 1, a resolved gateway call)
AnsweredOk ==
    /\ Answered
    /\ last.resp.kind = "http" => ResponseOk(last.resp.status) /\ last.resp.json

\* C1: from the start of a submission until it settles, routeResult is
\* absent: no earlier result is displayed while a request is pending.
C1_NoStaleResultWhilePending == calls # {} => routeResult = Null

\* a request is pending after an earlier submission displayed a result
C1_Witness == calls # {} /\ hadResult /\ routeResult = Null

\* C2: at most one round-trip is in flight; the form is disabled while it
\* is; the in-flight call, and the outcome applied at settle time, belong
\* to the most recent submission.
C2_AtMostOneInFlight ==
    /\ Cardinality(calls) <= 1
    /\ calls # {} => SubmitDisabled
    /\ \A c \in calls : c.id = submitCount
    /\ Settled => last.id = submitCount

\* a submit gesture arrived while the second submission was in flight, and
\* started nothing
C2_Witness == blocked /\ submitCount = 2 /\ Cardinality(calls) = 1

\* C3: every failed submission ends with loading false, one non-empty
\* error message and no result.
C3_FailureRecovered ==
    SettledFail =>
        /\ ~loading
        /\ error.t = "str"
        /\ error.v # ""
        /\ routeResult = Null

\* an upstream failure after an earlier submission displayed a result
C3_Witness == SettledFail /\ hadResult /\ last.cause = "http"

\* every entry of detail is {loc: [strings], msg: string}
WellFormedDetail(detail) ==
    /\ detail.t = "arr"
    /\ \A i \in 1..Len(detail.v) :
         /\ detail.v[i].t = "obj"
         /\ Get(detail.v[i], "loc").t = "arr"
         /\ \A j \in 1..Len(Get(detail.v[i], "loc").v) :
              Get(detail.v[i], "loc").v[j].t = "str"
         /\ Get(detail.v[i], "msg").t = "str"

\* the location path of an entry: its loc joined by "."
LocPath(e) ==
    JoinStr([j \in 1..Len(Get(e, "loc").v) |-> Get(e, "loc").v[j].v], ".")

Is422Validation ==
    /\ SettledFail
    /\ last.resp.kind = "http"
    /\ last.resp.status = 422
    /\ last.resp.json
    /\ last.resp.body.t = "obj"
    /\ WellFormedDetail(Get(last.resp.body, "detail"))

\* C4: for a 422 answer whose detail is an array of {loc, msg}, the error
\* message is one line that contains every entry's location path and
\* message.
C4_ValidationMessage ==
    Is422Validation =>
        /\ error.t = "str"
        /\ ~Contains(error.v, "\n")
        /\ \A i \in 1..Len(Get(last.resp.body, "detail").v) :
             LET e == Get(last.resp.body, "detail").v[i] IN
             /\ Contains(error.v, LocPath(e))
             /\ Contains(error.v, Get(e, "msg").v)

\* a 422 with two entries was displayed
C4_Witness ==
    /\ Is422Validation
    /\ Len(Get(last.resp.body, "detail").v) = 2
    /\ Contains(error.v, "current_charge_percent")
    /\ Contains(error.v, "field required")

\* C5: a failure is shown with the Unreachable message exactly when the
\* fetch call rejected without a response.
C5_UnreachableClassified ==
    (SettledFail /\ version \in {2, 3}) =>
        (last.cause = "unreachable" <=> error = Str(UnreachableMessage))

IsUpstream ==
    /\ SettledFail
    /\ last.resp.kind = "http"
    /\ ~ResponseOk(last.resp.status)
    /\ ~(last.resp.json /\ Get(last.resp.body, "detail").t = "arr")

\* C6: for a non-2xx answer that is no validation payload the message is
\* the detail string when there is one, otherwise the raw JSON body, and
\* a message carrying the status when the body is not JSON; for any other
\* type of detail it is still text derived from the response.
C6_UpstreamRawMessage ==
    IsUpstream =>
        /\ error.t = "str"
        /\ LET r == last.resp
               detail == Get(r.body, "detail")
           IN
           IF ~r.json
           THEN Contains(error.v, ToString(r.status))
           ELSE IF detail.t = "str" /\ detail.v # ""
           THEN error.v = detail.v
           ELSE IF r.body.t = "obj" /\ ~Truthy(detail)
           THEN error.v = JsonStringify(r.body)
           ELSE error.v \in { JsonStringify(r.body), JsonStringify(detail),
                              HttpErrorMessage(r.status).v }

\* RouteSummary shows no value at all
SummaryAllAbsent(data) ==
    /\ DistanceLine(data) = NA \o " km"
    /\ TotalTimeLine(data) = NA
    /\ ~DrivingShown(data) \/ formatMinutes(Get(data, "totalDrivingMinutes")) = NA
    /\ ~ChargingShown(data)
    /\ StopsLine(data) = NA
    /\ EnergyLine(data) = NA \o " kWh"
    /\ FinalChargeLine(data) = NA

\* C7: a 2xx answer of no known shape settles as a successful, empty
\* result: no error, not loading, nothing thrown, every summary field
\* absent, no route on the map.
C7_UnknownShapeIsEmptySuccess ==
    (AnsweredOk /\ IsUnknownShape(last.resp.body)) =>
        /\ last.kind = "ok"
        /\ error = Null
        /\ ~loading
        /\ ~crashed
        /\ SummaryAllAbsent(routeResult)
        /\ ~MapDrawable(routeResult)

\* C8: the result stored for an answer in one of the three known shapes
\* is the result stored for the same logical values in each other shape.
C8_ShapeIndependent ==
    (AnsweredOk /\ IsKnownShape(last.resp.body)) =>
        /\ last.kind = "ok"
        /\ \A n \in ShapeNames, lv \in LogicalValues :
             last.resp.body = Shape(n, lv) =>
                 \A n2 \in ShapeNames :
                     routeResult = StoredResult(version, Shape(n2, lv))

\* the line RouteSummary renders for a numeric field, "" when it renders
\* none
FieldLine(data, f) ==
    CASE f = "totalDistanceKm" -> DistanceLine(data)
      [] f = "totalDurationMinutes" -> TotalTimeLine(data)
      [] f = "totalDrivingMinutes" ->
           IF DrivingShown(data) THEN formatMinutes(Get(data, f)) ELSE ""
      [] f = "totalChargingMinutes" ->
           IF ChargingShown(data) THEN formatMinutes(Get(data, f)) ELSE ""
      [] f = "estimatedChargingStops" -> StopsLine(data)
      [] f = "totalEnergyConsumptionKwh" -> EnergyLine(data)
      [] OTHER -> FinalChargeLine(data)

IsNALine(line) == line \in {NA, NA \o " km", NA \o " kWh"}

\* null, or a string that is not a number
NonNumeric(w) == w.t = "null" \/ (w.t = "str" /\ StrToNumber(w.v).t = "nan")

\* C9: a numeric field whose wire value is null or non-numeric renders
\* "N/A" (never 0, never NaN, nothing thrown); one whose wire value is a
\* number, 0 included, renders that number and not "N/A".
C9_NumericFieldsAbsentOrShown ==
    (AnsweredOk /\ last.kind = "ok") =>
        \A f \in NumericFields :
            LET w == Get(last.resp.body, f) IN
            /\ NonNumeric(w) => ~crashed /\ IsNALine(FieldLine(routeResult, f))
            /\ w.t = "num" =>
                 /\ ~crashed
                 /\ ~IsNALine(FieldLine(routeResult, f))
                 /\ FieldLine(routeResult, f) # ""

\* RouteSummary is on screen
SummaryRendered == Settled /\ SummaryShown /\ ~crashed

DurationFields ==
    { "totalDurationMinutes", "totalDrivingMinutes", "totalChargingMinutes" }

DurationSourcesV1 ==
    { <<"estimatedTime", "total_duration_minutes">>,
      <<"totalDrivingTime", "total_driving_minutes">>,
      <<"totalChargingTime", "total_charging_minutes">> }

\* the text C11 states for m minutes
DurationText(m) ==
    IF m \div 60 > 0
    THEN ToString(m \div 60) \o "h " \o ToString(m % 60) \o "m"
    ELSE ToString(m % 60) \o "m"

\* C11: wherever a duration is formatted (formatMinutes in RouteSummary,
\* formattedForSummary in revision 1 of the page), an absent value gives
\* "N/A" and m minutes give "{H}h {M}m" when H = floor(m/60) > 0 and
\* "{M}m" when H = 0, with M = m mod 60.
C11_DurationFormat ==
    (AnsweredOk /\ last.kind = "ok" /\ ~crashed) =>
        /\ \A f \in DurationFields :
             LET w == Get(routeResult, f) IN
             /\ IsNullish(w) => formatMinutes(w) = NA
             /\ w.t = "num" => formatMinutes(w) = DurationText(w.v)
        /\ version = 1 =>
             \A p \in DurationSourcesV1 :
                 LET w == Get(Get(last.resp.body, "summary"), p[2]) IN
                 /\ IsNullish(w) => Get(routeResult, p[1]) = Str(NA)
                 /\ w.t = "num" =>
                      Get(routeResult, p[1]) = Str(DurationText(w.v))

\* C11 for formatMinutes alone: every duration RouteSummary formats
C11_FormatMinutesOnly ==
    (AnsweredOk /\ last.kind = "ok" /\ ~crashed) =>
        \A f \in DurationFields :
            LET w == Get(routeResult, f) IN
            /\ IsNullish(w) => formatMinutes(w) = NA
            /\ w.t = "num" => formatMinutes(w) = DurationText(w.v)

\* the labeled lines RouteSummary is to show for every result
SummaryLabels ==
    { "distance", "total", "driving", "charging", "stops", "energy", "final" }

\* the field of the result a labeled line displays
LabelField(label) ==
    CASE label = "distance" -> "totalDistanceKm"
      [] label = "total" -> "totalDurationMinutes"
      [] label = "driving" -> "totalDrivingMinutes"
      [] label = "charging" -> "totalChargingMinutes"
      [] label = "stops" -> "estimatedChargingStops"
      [] label = "energy" -> "totalEnergyConsumptionKwh"
      [] OTHER -> "finalChargePercent"

\* C12: for every result RouteSummary renders each of the seven labeled
\* lines; none is omitted, and the line of a field that is absent from the
\* result shows "N/A".
C12_FixedFieldSet ==
    SummaryRendered =>
        \A label \in SummaryLabels :
            /\ SummaryView(routeResult)[label] # ""
            /\ Get(routeResult, LabelField(label)).t = "undefined" =>
                 IsNALine(SummaryView(routeResult)[label])

\* the overlays of a drawn route: one polyline, one start marker, one end
\* marker, and one charging marker per charging-stop coordinate
RouteOverlays(routeData) ==
    LET path == PathOf(routeData)
        coords == ChargingCoords(routeData)
    IN BagOf(Polyline(path))
         (+) BagOf(Marker(path[1], "Start Location", "A"))
         (+) BagOf(Marker(path[Len(path)], "End Location", "B"))
         (+) SeqToBag([i \in 1..Len(coords) |->
                         Marker(coords[i], "Charging Stop " \o ToString(i),
                                Bolt \o ToString(i))])

\* the map exists and the page is on screen
MapLive == ~crashed /\ mapDisplay.mapInstance

\* C13: whatever sequence of results MapDisplay has processed, the overlays
\* on the map are exactly those of the latest result: for a drawable result
\* one polyline, one start marker, one end marker and one charging marker
\* per charging-stop coordinate, otherwise none; no charging marker of an
\* earlier result remains.
C13_OverlaysOfLatestResult ==
    MapLive =>
        /\ mapDisplay.onMap = IF MapDrawable(routeResult)
                              THEN RouteOverlays(routeResult)
                              ELSE EmptyBag
        /\ BagCardinality(mapDisplay.onMap)
             = IF MapDrawable(routeResult)
               THEN 3 + Len(ChargingCoords(routeResult))
               ELSE 0

\* a route without charging stops is on the map after a route with two
\* charging stops was
C13_Witness ==
    /\ MapLive
    /\ mapHistory.stops = 2
    /\ routeResult = MapBody(PathA, <<>>)
    /\ BagCardinality(mapDisplay.onMap) = 3

\* C14: when MapDisplay, with a route drawn, receives a result that has no
\* drawable geometry (no result, or a path of fewer than two points), the
\* map is Idle afterwards: polyline, start and end markers and all
\* charging markers are off the map, and centre and zoom are the default
\* (20.5937, 78.9629, zoom 5).
C14_NoRouteResetsMap ==
    [][ ( /\ MapLive
          /\ RouteOnMap(mapDisplay)
          /\ routeResult' # routeResult
          /\ ~MapDrawable(routeResult')
          /\ ~crashed' )
        => ( /\ mapDisplay'.mapInstance
             /\ mapDisplay'.onMap = EmptyBag
             /\ ~(mapDisplay'.polyline.exists /\ mapDisplay'.polyline.attached)
             /\ ~(mapDisplay'.startMarker.exists
                    /\ mapDisplay'.startMarker.attached)
             /\ ~(mapDisplay'.endMarker.exists /\ mapDisplay'.endMarker.attached)
             /\ mapDisplay'.chargingMarkers = <<>>
             /\ mapDisplay'.view
                  = [mode |-> "center",
                     center |-> [lat |-> 205937, lng |-> 789629],
                     zoom |-> 5] ) ]_vars

\* the route of the last answer was on the map with its charging markers,
\* and the submission that followed has cleared it
C14_Witness ==
    /\ MapLive
    /\ calls # {}
    /\ routeResult = Null
    /\ last.kind = "ok"
    /\ MapDrawable(StoredResult(version, last.resp.body))
    /\ mapHistory.stops > 0
    /\ mapDisplay.onMap = EmptyBag
    /\ mapDisplay.view = DefaultView

\* C15: a mounted MapDisplay constructs its map exactly once, when the
\* mapping library has become available, with the default centre and zoom;
\* no later change of routeData or re-run of the effect constructs another.
C15_MapConstructedOnce ==
    /\ mapDisplay.created <= 1
    /\ ~crashed =>
         mapDisplay.created = (IF mapDisplay.isGoogleMapsApiReady THEN 1 ELSE 0)
    /\ mapDisplay.mapInstance <=> mapDisplay.created = 1
    /\ mapDisplay.isGoogleMapsApiReady => googleLoaded
    /\ mapDisplay.created = 1 =>
         mapDisplay.createdView
           = [mode |-> "center",
              center |-> [lat |-> 205937, lng |-> 789629],
              zoom |-> 5]

\* one MapDisplay, mounted once, has drawn the routes of two submissions
\* on the one map it constructed
C15_Witness ==
    /\ mapHistory.mounts = 1
    /\ submitCount >= 2
    /\ mapHistory.stops = 2
    /\ RouteOnMap(mapDisplay)
    /\ mapDisplay.created = 1

\* C16: on the page the map persists across submissions: neither clearing
\* the result at submit nor a new result unmounts the MapDisplay and
\* constructs another map; the page has one MapDisplay and at most one map.
C16_MapPersistsAcrossSubmissions ==
    /\ mapHistory.mounts = 1
    /\ mapHistory.maps <= 1

\* the same, for the revisions that give MapDisplay no key
C16_PersistsWithoutKey ==
    version \in {1, 2} =>
        /\ mapHistory.mounts = 1
        /\ mapHistory.maps <= 1

\* p lies within the bounds b
InBounds(b, p) ==
    /\ ~b.empty
    /\ b.south <= p.lat /\ p.lat <= b.north
    /\ b.west <= p.lng /\ p.lng <= b.east

\* the route of the current result is on the map
RouteDrawn == MapLive /\ MapDrawable(routeResult) /\ RouteOnMap(mapDisplay)

\* C17: after every draw the viewport is fit to bounds that contain every
\* point of the path and every charging-stop coordinate of the drawn
\* result.
C17_ViewportFitsRouteAndStops ==
    RouteDrawn =>
        /\ mapDisplay.view.mode = "bounds"
        /\ \A i \in 1..Len(PathOf(routeResult)) :
             InBounds(mapDisplay.view.bounds, PathOf(routeResult)[i])
        /\ \A i \in 1..Len(ChargingCoords(routeResult)) :
             InBounds(mapDisplay.view.bounds, ChargingCoords(routeResult)[i])

\* a route is drawn whose charging stop lies north of every path point
C17_Witness ==
    /\ RouteDrawn
    /\ routeResult = MapBody(PathA, <<Point(14, 78)>>)
    /\ mapDisplay.view.mode = "bounds"
    /\ mapDisplay.view.bounds.north = 140000

\* C18: the i-th charging-stop coordinate of the drawn result (counting
\* from 1) is on the map as the charging marker whose label carries the
\* sequence number i; the start and end markers are labeled "A" and "B",
\* labels that no charging marker carries.
C18_ChargingMarkersNumbered ==
    RouteDrawn =>
        LET coords == ChargingCoords(routeResult)
            markers == mapDisplay.chargingMarkers
        IN
        /\ Len(markers) = Len(coords)
        /\ \A i \in 1..Len(coords) :
             /\ markers[i].position = coords[i]
             /\ markers[i].label = Bolt \o ToString(i)
             /\ markers[i].title = "Charging Stop " \o ToString(i)
             /\ markers[i].label \notin {"A", "B"}
             /\ CopiesIn(markers[i], mapDisplay.onMap) >= 1
        /\ mapDisplay.startMarker.exists
        /\ mapDisplay.startMarker.attached
        /\ mapDisplay.startMarker.desc.label = "A"
        /\ mapDisplay.endMarker.exists
        /\ mapDisplay.endMarker.attached
        /\ mapDisplay.endMarker.desc.label = "B"

\* a route with two charging stops is drawn, the second labeled 2
C18_Witness ==
    /\ RouteDrawn
    /\ Len(ChargingCoords(routeResult)) = 2
    /\ Len(mapDisplay.chargingMarkers) = 2
    /\ mapDisplay.chargingMarkers[2].label = Bolt \o "2"
    /\ mapDisplay.chargingMarkers[2].position = [lat |-> 160000, lng |-> 750000]

\* the answer of C19: nested summary with total_distance_km 350, and two
\* charging locations
NestedAnswer == ShapeSummary([dist |-> 350, dur |-> 75, stops |-> 2])

\* C19: a submission answered with the nested summary / charging_locations
\* shape (total_distance_km 350, two charging stops) ends with no error,
\* with "350.00 km" and a charging-stop count of 2 in the summary, and with
\* the map showing the route with exactly two charging markers.
C19_NestedAnswerEndToEnd ==
    (AnsweredOk /\ last.resp.body = NestedAnswer) =>
        /\ last.kind = "ok"
        /\ error = Null
        /\ ~crashed
        /\ DistanceLine(routeResult) = "350.00 km"
        /\ StopsLine(routeResult) = "2"
        /\ mapDisplay.mapInstance =>
             /\ RouteDrawn
             /\ Len(mapDisplay.chargingMarkers) = 2

\* the part of C19 that holds: the submission ends without an error
C19_NoErrorOnly ==
    (AnsweredOk /\ last.resp.body = NestedAnswer) =>
        /\ last.kind = "ok"
        /\ error = Null
        /\ ~crashed

\* what is displayed instead: no distance, no count, no route
C19_Displayed ==
    (AnsweredOk /\ last.resp.body = NestedAnswer) =>
        /\ DistanceLine(routeResult) = "N/A km"
        /\ StopsLine(routeResult) = "N/A"
        /\ ~RouteOnMap(mapDisplay)

\* the value a request carries under either revision's name of a field
RequestField(r, camel, snake) ==
    IF HasKey(r, camel) THEN Get(r, camel) ELSE Get(r, snake)

NonEmptyText(x) == x.t = "str" /\ x.v # ""

\* the requests that have been emitted and are awaiting the backend
EmittedRequests == { c.request : c \in { d \in calls : d.pc = "fetch" } }

\* C20: every request RouteForm's submit emits has a non-empty vehicle,
\* start and destination, a numeric range, and a current charge that is a
\* number within 0..100; a submit attempt with a missing field or with a
\* charge that is out of range or no number emits no request.
C20_EmittedRequestComplete ==
    \A r \in EmittedRequests :
        /\ NonEmptyText(RequestField(r, "makeModel", "ev_type"))
        /\ NonEmptyText(RequestField(r, "startLocation", "start_location"))
        /\ NonEmptyText(RequestField(r, "destination", "end_location"))
        /\ RequestField(r, "range", "range_full_charge").t = "num"
        /\ LET ch == RequestField(r, "currentCharge", "current_charge_percent")
           IN ch.t = "num" /\ ch.v >= 0 /\ ch.v <= 100

\* C20 without the range: what the requests of both RouteForm revisions
\* satisfy
C20_PresentFieldsValid ==
    \A r \in EmittedRequests :
        /\ NonEmptyText(RequestField(r, "makeModel", "ev_type"))
        /\ NonEmptyText(RequestField(r, "startLocation", "start_location"))
        /\ NonEmptyText(RequestField(r, "destination", "end_location"))
        /\ FormVersion(version) = 1 => Get(r, "range").t = "num"
        /\ LET ch == RequestField(r, "currentCharge", "current_charge_percent")
           IN ch.t = "num" /\ ch.v >= 0 /\ ch.v <= 100

\* a form is refused exactly for a missing field or a bad charge, and a
\* refused form starts no submission
C20_RefusedFormsEmitNothing ==
    [][ rejected' # rejected /\ rejected' # NoAttempt
          => /\ calls' = calls
             /\ submitCount' = submitCount
             /\ \/ "" \in { rejected'.vehicle, rejected'.startLocation,
                            rejected'.destination, rejected'.currentCharge }
                \/ rejected'.range = ""
                \/ rejected'.currentCharge \in {"-5", "150"} ]_vars

\* revision 1 has stored the formatted stops of the answer
StopsFormatted == version = 1 /\ AnsweredOk /\ last.kind = "ok"

\* C21: the connector type displayed for a charging stop is the joined
\* list of its connector types when they are given and "Unknown" when
\* they are absent; for no input (absent, null, an empty sequence) is it
\* the empty string.
C21_ConnectorTypeNeverEmpty ==
    StopsFormatted =>
        \A i \in 1..Len(Get(last.resp.body, "charging_locations").v) :
            LET ct == Get(Get(last.resp.body, "charging_locations").v[i],
                          "connection_types")
                shown == Get(Get(routeResult, "chargingStops").v[i], "type")
            IN
            /\ shown.t = "str"
            /\ shown.v # ""
            /\ IsNullish(ct) => shown.v = "Unknown"
            /\ (ct.t = "arr" /\ Len(ct.v) > 0) =>
                 shown.v = JoinStr([j \in 1..Len(ct.v) |-> ct.v[j].v], ", ")

\* C21 without the empty sequence: absent and null give "Unknown", a
\* non-empty sequence gives its elements joined by ", "
C21_GivenOrAbsent ==
    StopsFormatted =>
        \A i \in 1..Len(Get(last.resp.body, "charging_locations").v) :
            LET ct == Get(Get(last.resp.body, "charging_locations").v[i],
                          "connection_types")
                shown == Get(Get(routeResult, "chargingStops").v[i], "type")
            IN
            /\ IsNullish(ct) => shown = Str("Unknown")
            /\ (ct.t = "arr" /\ Len(ct.v) > 0) =>
                 shown = Str(JoinStr([j \in 1..Len(ct.v) |-> ct.v[j].v], ", "))

\* C22: the application has exactly two routes: "/" mounts the trip
\* planner and "/battery-disposal" the static disposal page; nothing is
\* mounted at any other pathname, and the header's "Route Optimizer" link
\* leads to the trip planner.
C22_TwoRoutes ==
    /\ Cardinality(AppRoutes(appVersion)) = 2
    /\ pathname = "/" => Mounted(appVersion, pathname) = "RouteOptimizerPage"
    /\ pathname = "/battery-disposal" =>
         Mounted(appVersion, pathname) = "BatteryDisposalPage"
    /\ pathname \notin {"/", "/battery-disposal"} =>
         Mounted(appVersion, pathname) = "none"
    /\ \A l \in HeaderLinks :
         l[1] = "Route Optimizer" =>
             Mounted(appVersion, l[2]) = "RouteOptimizerPage"

\* C22 for the revision of App in src/unnamed/part_000
C22_TwoRoutesFirstApp == appVersion = 1 => C22_TwoRoutes

\* in both revisions "/battery-disposal" mounts the disposal page
C22_DisposalRoute ==
    pathname = "/battery-disposal" =>
        Mounted(appVersion, pathname) = "BatteryDisposalPage"

(***************************************************************************)
(* C23: the changes one update of MapDisplay makes to the map are ordered: *)
(* every overlay of the previous result is detached before any overlay of  *)
(* the new result is attached.  An update is one run of the main effect    *)
(* together with the cleanup of the run before it; the effect body has no  *)
(* await, so a run is finished before the next one starts, which is why    *)
(* the log of one run is never mixed with the log of another.              *)
(***************************************************************************)
Sequenced(log) ==
    \A i, j \in 1..Len(log) :
        i < j => ~(log[i] = "attach" /\ log[j] = "detach")

C23_ClearBeforeRedraw == Sequenced(mapDisplay.log)

\* an update that both removed the overlays of a drawn route and drew a
\* route again
C23_Witness ==
    /\ \E i, j \in 1..Len(mapDisplay.log) :
           i < j /\ mapDisplay.log[i] = "detach" /\ mapDisplay.log[j] = "attach"
    /\ RouteDrawn

\* an update that only cleared: the submission that follows a drawn route
C23_ClearOnly ==
    /\ loading /\ mapHistory.drawn
    /\ mapDisplay.log # <<>>
    /\ \A i \in 1..Len(mapDisplay.log) : mapDisplay.log[i] = "detach"

(***************************************************************************)
(* C26: error and routeResult are never both set.                          *)
(***************************************************************************)
C26_ErrorOrResultNotBoth == ~(error # Null /\ routeResult # Null)

\* a failed submission that follows a displayed result: the error is set
\* and the earlier result is gone
C26_Witness == SettledFail /\ hadResult /\ error # Null /\ routeResult = Null

\* the three steps of the claim: a submission clears both, a successful
\* settle leaves error alone, a failed settle leaves routeResult alone
C26_Steps ==
    [][/\ submitCount' # submitCount => error' = Null /\ routeResult' = Null
       /\ (calls # {} /\ calls' = {})
            => \/ last'.kind = "ok" /\ error' = error
               \/ last'.kind = "fail" /\ routeResult' = routeResult
                                      /\ error' # Null]_vars

(***************************************************************************)
(* C27: between the drawing of two successive routes the map passes        *)
(* through the default view.  A submission made while a route is drawn     *)
(* leaves a map without overlays at the default centre and zoom (the same  *)
(* map, or in revision 3 the map of the remounted MapDisplay), the map     *)
(* stays so while the request is pending, and no step leads from a drawn   *)
(* route directly to the drawn route of another submission.                *)
(***************************************************************************)
C27_DefaultViewBetweenRoutes ==
    [][ /\ (RouteDrawn /\ submitCount' # submitCount)
            => /\ mapDisplay'.mapInstance
               /\ mapDisplay'.onMap = EmptyBag
               /\ mapDisplay'.view = DefaultView
        /\ (RouteDrawn /\ RouteDrawn') => last'.id = last.id ]_vars

\* while a request is pending a map that exists shows the default view
C27_DefaultWhilePending ==
    (calls # {} /\ MapLive) =>
        mapDisplay.onMap = EmptyBag /\ mapDisplay.view = DefaultView

\* the route of the first answer was drawn, and the submission that
\* followed has left the map at the default view
C27_Witness ==
    /\ calls # {} /\ submitCount = 2
    /\ last.kind = "ok"
    /\ MapDrawable(StoredResult(version, last.resp.body))
    /\ mapHistory.drawn
    /\ MapLive
    /\ mapDisplay.onMap = EmptyBag /\ mapDisplay.view = DefaultView

\* the route of the second submission is drawn, at its fitted view
C27_SecondRouteDrawn ==
    /\ RouteDrawn
    /\ last.id = 2
    /\ mapDisplay.view # DefaultView
    /\ mapDisplay.view = FittedView(ExtendAll(EmptyBounds,
                             FitPoints(PathOf(routeResult),
                                       ChargingCoords(routeResult))))

(***************************************************************************)
(* C28: every request the second RouteForm emits carries                   *)
(* charging_preference "fast" exactly when the selected charger value is   *)
(* "fast", and "standard" for every other selection, the initial "any"     *)
(* included; no other value is sent.  `selected` is the value the form's   *)
(* state held at the submit gesture.                                       *)
(***************************************************************************)
C28_ChargingPreferenceMapped ==
    FormVersion(version) = 2 =>
        \A c \in { d \in calls : d.pc = "fetch" } :
            LET pref == Get(c.request, "charging_preference") IN
            /\ pref \in {Str("standard"), Str("fast")}
            /\ pref = Str("fast") <=> c.selected = "fast"

\* a request emitted with the selection left at its initial value
C28_Witness ==
    /\ FormVersion(version) = 2
    /\ \E c \in calls :
          /\ c.pc = "fetch"
          /\ c.selected = "any"
          /\ Get(c.request, "charging_preference") = Str("standard")

\* a request emitted with the fast charger selected
C28_FastSent ==
    /\ FormVersion(version) = 2
    /\ \E c \in calls :
          /\ c.pc = "fetch"
          /\ c.selected = "fast"
          /\ Get(c.request, "charging_preference") = Str("fast")

(***************************************************************************)
(* C24: after any outcome of a submission loading returns to false and the *)
(* form accepts a new submission, provided the request settles.            *)
(***************************************************************************)
FormAccepts == PlannerMounted /\ ~crashed /\ ~SubmitDisabled

C24_FormUsableAfterOutcome == loading ~> (~loading /\ FormAccepts)

\* the part of C24 about loading alone: no outcome leaves loading true
C24_LoadingEventuallyFalse == loading ~> ~loading

\* the same as a statement about the settled page
C24_SettledNotLoading == Settled => ~loading

\* C24 for every outcome the handler catches, and for every answer the page
\* can render
C24_UsableUnlessRenderThrows == (Settled /\ ~crashed) => FormAccepts

(***************************************************************************)
(* C25: MapDisplay has no map and shows its placeholder for as long as the *)
(* mapping library is unavailable; once it is available the readiness poll *)
(* observes it, the map is constructed at the default view and the poll    *)
(* stops (it is stopped on unmount too); under fairness of the poll,       *)
(* availability of the library leads to a constructed map, which is Idle,  *)
(* or shows the route of a result that arrived before the map existed.     *)
(***************************************************************************)
Uninitialized ==
    ~crashed /\ ~mapDisplay.mapInstance /\ ~mapDisplay.hasMapBeenCreated

Idle ==
    MapLive /\ mapDisplay.onMap = EmptyBag /\ mapDisplay.view = DefaultView

C25_ReadinessPoll ==
    /\ [](~crashed =>
            /\ ~googleLoaded => Uninitialized
            /\ Uninitialized \/ mapDisplay.mapInstance
            /\ Uninitialized => mapDisplay.polling /\ mapDisplay.onMap = EmptyBag
            /\ mapDisplay.mapInstance =>
                 /\ ~mapDisplay.polling
                 /\ mapDisplay.hasMapBeenCreated
                 /\ mapDisplay.createdView = DefaultView
                 /\ Idle \/ RouteDrawn)
    /\ [](crashed => ~mapDisplay.polling)
    /\ (Uninitialized /\ googleLoaded) ~> (crashed \/ Idle \/ RouteDrawn)

\* C25 as it was stated: availability of the library leads to Idle
C25_LibraryLeadsToIdle == (Uninitialized /\ googleLoaded) ~> (crashed \/ Idle)

\* the poll ran while the library was unavailable, then observed it: the map
\* exists, is Idle, and the poll has stopped
C25_Witness ==
    /\ Idle
    /\ mapDisplay.initialMapMessage = "Loading map API..."
    /\ ~mapDisplay.polling
    /\ mapDisplay.created = 1

\* the library is available and the poll has not fired yet
C25_AwaitingPoll == Uninitialized /\ googleLoaded /\ mapDisplay.polling

\* the steps CallProgress describes are the steps of pending calls: a step
\* that changes `calls` while a call is pending is no new submission, and a
\* pending call on a page that is on screen can always take a step
C24_CallStepsOnly ==
    [][(calls # {} /\ calls' # calls)
          => (submitCount' = submitCount /\ Cardinality(calls') <= 1)]_vars

=============================================================================
